---- MODULE Spec2Model ----
(***************************************************************************)
(* A model of the PDF exporter of src/export/pdf.rs: the reference         *)
(* allocator (Refs), the resource remapper (Remapper), the collection pass *)
(* (PdfExporter::new), the write pass (write_structure, write_pages,       *)
(* write_fonts, write_images), the content stream encoder (write_page)     *)
(* and the image encoder (encode_image).                                   *)
(*                                                                         *)
(* Conventions.  Option<T> is a sequence: <<>> is None, <<v>> is Some(v).  *)
(* Lengths are whole points, and f32 arithmetic on them is integer         *)
(* arithmetic.  An Em is held in thousandths of an em.  A colour channel   *)
(* is held as its u8 value: the operand c / 255.0 of a colour operator is  *)
(* recorded by its numerator c.  deflate is a black box and is left out:   *)
(* a stream object holds the bytes handed to deflate.                      *)
(***************************************************************************)
EXTENDS Integers, Sequences, FiniteSets, TLC

VARIABLES
    pc,         \* position of the running routine
    frames,     \* PdfExporter.frames: the frames handed to pdf()
    fonts,      \* ctx.fonts: face id -> face
    images,     \* ctx.images: image id -> image
    glyphs,     \* PdfExporter.glyphs: face id -> set of used glyph ids
    font_map,   \* PdfExporter.font_map: Remapper<FaceId>
    image_map,  \* PdfExporter.image_map: Remapper<ImageId>
    refs,       \* PdfExporter.refs: Refs
    writer,     \* PdfExporter.writer: the objects written so far, in order
    page,       \* write_pages: position in the zip of contents() and frames
    local,      \* write_page: content, face_id, size, fill, in_text_state
    arg,        \* the argument of the routine a unit specification runs
    ret         \* the value that routine returned

vars == <<pc, frames, fonts, images, glyphs, font_map, image_map, refs,
          writer, page, local, arg, ret>>

(***************************************************************************)
(* Bounds of the model.                                                    *)
(***************************************************************************)
MaxCount == 3       \* Refs::new: largest count of pages, fonts, images, masks
MaxIds == 3         \* Remapper: number of distinct external ids
MaxInserts == 4     \* Remapper: longest sequence of insert calls
MaxFrames == 2      \* export: largest number of frames
MaxElems == 2       \* export: largest number of elements over all frames
MaxPageElems == 3   \* content stream: largest number of elements of a frame
MaxSubtables == 2   \* reverse cmap: largest number of subtables of a face

(***************************************************************************)
(* Helpers.                                                                *)
(***************************************************************************)
\* The Rust range a .. b as a sequence (empty when b <= a).
Range(a, b) == [k \in 1 .. (IF b > a THEN b - a ELSE 0) |-> a + k - 1]

\* The set of the elements of a sequence.
Elems(s) == {s[k] : k \in 1 .. Len(s)}

\* Iterator::zip: the length of the shorter side.
ZipLen(s, t) == IF Len(s) < Len(t) THEN Len(s) ELSE Len(t)

\* All sequences over S of length at most n.
SeqsUpTo(S, n) == UNION {[1 .. k -> S] : k \in 0 .. n}

(***************************************************************************)
(* Refs (lines 579-650).                                                   *)
(***************************************************************************)
OBJECTS_PER_FONT == 5

\* The value of the field before the exporter is constructed.
NoRefs ==
    [catalog |-> 0, page_tree |-> 0, pages_start |-> 0, contents_start |-> 0,
     fonts_start |-> 0, images_start |-> 0, alpha_masks_start |-> 0, end |-> 0]

\* Refs::new(pages, fonts, images, alpha_masks)
RefsNew(p, f, i, a) ==
    LET catalog == 1
        page_tree == catalog + 1
        pages_start == page_tree + 1
        contents_start == pages_start + p
        fonts_start == contents_start + p
        images_start == fonts_start + OBJECTS_PER_FONT * f
        alpha_masks_start == images_start + i
        end == alpha_masks_start + a
    IN  [catalog |-> catalog, page_tree |-> page_tree,
         pages_start |-> pages_start, contents_start |-> contents_start,
         fonts_start |-> fonts_start, images_start |-> images_start,
         alpha_masks_start |-> alpha_masks_start, end |-> end]

\* Refs::pages
RefsPages(r) == Range(r.pages_start, r.contents_start)

\* Refs::contents: the range runs up to images_start.
RefsContents(r) == Range(r.contents_start, r.images_start)

\* FontRefs of the group that starts at id.
FontRefs(id) ==
    [type0_font |-> id, cid_font |-> id + 1, font_descriptor |-> id + 2,
     cmap |-> id + 3, data |-> id + 4]

\* Refs::fonts: (fonts_start .. images_start).step_by(OBJECTS_PER_FONT)
RefsFonts(r) ==
    LET n == r.images_start - r.fonts_start
        groups == IF n > 0
                  THEN (n + OBJECTS_PER_FONT - 1) \div OBJECTS_PER_FONT
                  ELSE 0
    IN  [k \in 1 .. groups |->
            FontRefs(r.fonts_start + OBJECTS_PER_FONT * (k - 1))]

\* Refs::images: the range runs up to end.
RefsImages(r) == Range(r.images_start, r.end)

\* An alpha mask id counted from the start of the image band.
RefsAlphaMaskInImageBand(r, i) == r.images_start + i

\* Refs::alpha_mask(i)
RefsAlphaMask(r, i) == r.alpha_masks_start + i

(***************************************************************************)
(* Remapper (lines 652-695).  to_pdf is a function on the inserted ids,    *)
(* to_layout a sequence; pdf indices count from 0, so the id with pdf      *)
(* index k is to_layout[k + 1].                                            *)
(***************************************************************************)
\* Remapper::new
RemapperNew == [to_pdf |-> <<>>, to_layout |-> <<>>]

\* Remapper::len
RemapperLen(rm) == Len(rm.to_layout)

\* A Remapper whose insert pushes the id whether or not it is known.
RemapperInsertAlways(rm, index) ==
    [to_pdf |-> [i \in DOMAIN rm.to_pdf \cup {index} |->
                    IF i = index THEN Len(rm.to_layout) ELSE rm.to_pdf[i]],
     to_layout |-> Append(rm.to_layout, index)]

\* Remapper::insert: entry(index).or_insert_with(push and return old length)
RemapperInsert(rm, index) ==
    IF index \in DOMAIN rm.to_pdf
    THEN rm
    ELSE [to_pdf |-> [i \in DOMAIN rm.to_pdf \cup {index} |->
                         IF i = index THEN Len(rm.to_layout) ELSE rm.to_pdf[i]],
          to_layout |-> Append(rm.to_layout, index)]

\* Whether Remapper::map(index) aborts: indexing the map with a missing key.
RemapperMapPanics(rm, index) == index \notin DOMAIN rm.to_pdf

\* Remapper::map, where it does not abort.
RemapperMap(rm, index) == rm.to_pdf[index]

\* Remapper::pdf_indices: 0 .. to_pdf.len()
RemapperPdfIndices(rm) == Range(0, Cardinality(DOMAIN rm.to_pdf))

\* Remapper::layout_indices
RemapperLayoutIndices(rm) == rm.to_layout

(***************************************************************************)
(* The input data (crate::layout, crate::image, crate::font, as far as     *)
(* pdf.rs reads them).                                                     *)
(***************************************************************************)
Point(x, y) == [x |-> x, y |-> y]
Size(w, h) == [w |-> w, h |-> h]

\* Paint::Color(Color::Rgba(c)): pdf.rs reads c.r, c.g and c.b; a is the
\* remaining channel of the colour, which takes part in Paint's equality.
Rgba(r, g, b, a) == [r |-> r, g |-> g, b |-> b, a |-> a]

\* A shaped glyph: the fields write_page reads.
Glyph(id, x_advance, x_offset) ==
    [id |-> id, x_advance |-> x_advance, x_offset |-> x_offset]

\* Element::Text, Element::Geometry, Element::Image, Element::Link
Text(face_id, size, fill, gs) ==
    [type |-> "Text", face_id |-> face_id, size |-> size, fill |-> fill,
     glyphs |-> gs]
Geometry(geometry, paint) ==
    [type |-> "Geometry", geometry |-> geometry, paint |-> paint]
Image(id, size) == [type |-> "Image", id |-> id, size |-> size]
Link(href, size) == [type |-> "Link", href |-> href, size |-> size]

\* Geometry::Rect, Geometry::Ellipse, Geometry::Line, Geometry::Path
Rect(size) == [shape |-> "Rect", size |-> size]
Ellipse(size) == [shape |-> "Ellipse", size |-> size]
Line(target, thickness) ==
    [shape |-> "Line", target |-> target, thickness |-> thickness]
Path(path) == [shape |-> "Path", path |-> path]

\* geom::PathElement
MoveTo(p) == [seg |-> "MoveTo", pts |-> <<p>>]
LineTo(p) == [seg |-> "LineTo", pts |-> <<p>>]
CubicTo(p1, p2, p3) == [seg |-> "CubicTo", pts |-> <<p1, p2, p3>>]
ClosePath == [seg |-> "ClosePath", pts |-> <<>>]

\* A frame: its size and its (position, element) pairs.
Frame(size, elements) == [size |-> size, elements |-> elements]

\* ColorType::has_alpha of the decoded buffer's layout.
HasAlpha(color) == color \in {"LumaA8", "Rgba8", "LumaA16", "Rgba16"}

(***************************************************************************)
(* Content streams: an operator is a record of its mnemonic, its name      *)
(* operand (<<>> when it has none), its numeric operands, the items of a   *)
(* positioned show, and elem, the index of the frame element whose         *)
(* encoding emitted it (0: the end of the frame).                          *)
(***************************************************************************)
Op(o, name, args, items, e) ==
    [op |-> o, name |-> name, args |-> args, items |-> items, elem |-> e]

Emit(st, ops) == [st EXCEPT !.content = @ \o ops]

\* EmExt::to_pdf: 1000.0 * em, with em in thousandths.
ToPdf(em) == (1000 * em) \div 1000

\* write_fill: set_fill_rgb(c.r / 255, c.g / 255, c.b / 255)
WriteFill(fill, e) == <<Op("rg", <<>>, <<fill.r, fill.g, fill.b>>, <<>>, e)>>

\* write_stroke: set_stroke_rgb, then set_line_width
WriteStroke(stroke, thickness, e) ==
    <<Op("RG", <<>>, <<stroke.r, stroke.g, stroke.b>>, <<>>, e),
      Op("w", <<>>, <<thickness>>, <<>>, e)>>

\* write_path, one path element (lines 502-514)
PathSegment(x, y, elem, e) ==
    CASE elem.seg = "MoveTo" ->
            Op("m", <<>>, <<x + elem.pts[1].x, y + elem.pts[1].y>>, <<>>, e)
      [] elem.seg = "LineTo" ->
            Op("l", <<>>, <<x + elem.pts[1].x, y + elem.pts[1].y>>, <<>>, e)
      [] elem.seg = "CubicTo" ->
            Op("c", <<>>,
               <<x + elem.pts[1].x, y + elem.pts[1].y,
                 x + elem.pts[2].x, y + elem.pts[2].y,
                 x + elem.pts[3].x, y + elem.pts[3].y>>, <<>>, e)
      [] OTHER -> Op("h", <<>>, <<>>, <<>>, e)

\* write_path: every path element, then fill_nonzero
WritePath(x, y, path, e) ==
    [k \in 1 .. Len(path) |-> PathSegment(x, y, path[k], e)]
        \o <<Op("f", <<>>, <<>>, <<>>, e)>>

\* geom::Path::ellipse(size): a move and four cubic curves around the centre
\* (rx, ry), the control points at 0.551784 of the radii.
PathEllipse(size) ==
    LET rx == size.w \div 2
        ry == size.h \div 2
        mx == (551784 * rx) \div 1000000
        my == (551784 * ry) \div 1000000
        pt(px, py) == Point(px + rx, py + ry)
    IN  <<MoveTo(pt(-rx, 0)),
          CubicTo(pt(-rx, my), pt(-mx, ry), pt(0, ry)),
          CubicTo(pt(mx, ry), pt(rx, my), pt(rx, 0)),
          CubicTo(pt(rx, -my), pt(mx, -ry), pt(0, -ry)),
          CubicTo(pt(-mx, -ry), pt(-rx, -my), pt(-rx, 0))>>

(***************************************************************************)
(* write_page (lines 161-304).  The locals of the element loop are the     *)
(* record st: content, face_id, size, fill, in_text_state (and next, the   *)
(* index of the next element).                                             *)
(***************************************************************************)
\* The locals at the start of write_page (lines 162-169).
PageLocals ==
    [content |-> <<>>, face_id |-> <<>>, size |-> 0, fill |-> <<>>,
     in_text_state |-> FALSE, next |-> 1]

\* A state fix-up that leaves text mode only before a Geometry.
EnterStateGeometryOnly(st, element, e) ==
    IF element.type = "Text" /\ ~st.in_text_state
    THEN [Emit(st, <<Op("BT", <<>>, <<>>, <<>>, e)>>)
            EXCEPT !.in_text_state = TRUE]
    ELSE IF element.type = "Geometry" /\ st.in_text_state
         THEN [Emit(st, <<Op("ET", <<>>, <<>>, <<>>, e)>>)
                 EXCEPT !.in_text_state = FALSE]
         ELSE st

\* "Make sure the content stream is in the correct state" (lines 172-185).
EnterState(st, element, e) ==
    IF element.type = "Text" /\ ~st.in_text_state
    THEN [Emit(st, <<Op("BT", <<>>, <<>>, <<>>, e)>>)
            EXCEPT !.in_text_state = TRUE]
    ELSE IF element.type \in {"Geometry", "Image"} /\ st.in_text_state
         THEN [Emit(st, <<Op("ET", <<>>, <<>>, <<>>, e)>>)
                 EXCEPT !.in_text_state = FALSE]
         ELSE st

\* A fill test that is passed by every text.
FillChangesAlways(st, text) == TRUE

\* fill != Some(text.fill) (line 192)
FillChanges(st, text) == st.fill # <<text.fill>>

\* A font test that forgets the size.
FontChangesFaceOnly(st, text) == st.face_id # <<text.face_id>>

\* face_id != Some(text.face_id) || text.size != size (line 199)
FontChanges(st, text) ==
    st.face_id # <<text.face_id>> \/ text.size # st.size

\* Face::advance(glyph id): Some(advance) or None.
FaceAdvance(face, id) ==
    IF id \in DOMAIN face.advance THEN <<face.advance[id]>> ELSE <<>>

\* A show item and an adjust item of a positioned show.
Show(encoded) == <<"show", encoded>>
Adjust(amount) == <<"adjust", <<amount>>>>

\* A glyph step that adds the advance difference with the wrong sign.
GlyphStepNegated(g, adjustment, encoded, items, face) ==
    LET a1 == adjustment + g.x_offset
        flush == a1 # 0
        shown == IF flush /\ encoded # <<>>
                 THEN Append(items, Show(encoded))
                 ELSE items
        items1 == IF flush THEN Append(shown, Adjust(-ToPdf(a1))) ELSE items
        enc1 == IF flush THEN <<>> ELSE encoded
        a2 == IF flush THEN 0 ELSE a1
        enc2 == enc1 \o <<(g.id \div 256) % 256, g.id % 256>>
        adv == FaceAdvance(face, g.id)
        a3 == IF adv # <<>> THEN a2 - (g.x_advance - adv[1]) ELSE a2
    IN  [adjustment |-> a3 - g.x_offset, encoded |-> enc2, items |-> items1]

\* One iteration of "for glyph in &text.glyphs" (lines 218-239).
GlyphStep(g, adjustment, encoded, items, face) ==
    LET a1 == adjustment + g.x_offset
        flush == a1 # 0
        shown == IF flush /\ encoded # <<>>
                 THEN Append(items, Show(encoded))
                 ELSE items
        items1 == IF flush THEN Append(shown, Adjust(-ToPdf(a1))) ELSE items
        enc1 == IF flush THEN <<>> ELSE encoded
        a2 == IF flush THEN 0 ELSE a1
        enc2 == enc1 \o <<(g.id \div 256) % 256, g.id % 256>>
        adv == FaceAdvance(face, g.id)
        a3 == IF adv # <<>> THEN a2 + (g.x_advance - adv[1]) ELSE a2
    IN  [adjustment |-> a3 - g.x_offset, encoded |-> enc2, items |-> items1]

\* The glyph loop and the final show of the buffered bytes (lines 214-243).
RECURSIVE GlyphLoop(_, _, _, _, _, _)
GlyphLoop(gs, k, adjustment, encoded, items, face) ==
    IF k > Len(gs)
    THEN IF encoded # <<>> THEN Append(items, Show(encoded)) ELSE items
    ELSE LET r == GlyphStep(gs[k], adjustment, encoded, items, face)
         IN  GlyphLoop(gs, k + 1, r.adjustment, r.encoded, r.items, face)

\* Element::Text (lines 191-244)
TextStep(st, x, y, text, fm, face, e) ==
    LET s1 == IF FillChanges(st, text)
              THEN [Emit(st, WriteFill(text.fill, e))
                      EXCEPT !.fill = <<text.fill>>]
              ELSE st
        s2 == IF FontChanges(s1, text)
              THEN [Emit(s1, <<Op("Tf",
                                  <<"F", RemapperMap(fm, text.face_id)>>,
                                  <<text.size>>, <<>>, e)>>)
                      EXCEPT !.face_id = <<text.face_id>>,
                             !.size = text.size]
              ELSE s1
    IN  Emit(s2, <<Op("Tm", <<>>, <<1, 0, 0, 1, x, y>>, <<>>, e),
                   Op("TJ", <<>>, <<>>,
                      GlyphLoop(text.glyphs, 1, 0, <<>>, <<>>, face), e)>>)

\* A rectangle branch that paints whatever the width and height are.
ShapeOpsUnguarded(x, y, geometry, paint, e) ==
    CASE geometry.shape = "Rect" ->
            WriteFill(paint, e)
            \o <<Op("re", <<>>,
                    <<x, y - geometry.size.h,
                      geometry.size.w, geometry.size.h>>, <<>>, e),
                 Op("f", <<>>, <<>>, <<>>, e)>>
      [] geometry.shape = "Ellipse" ->
            WriteFill(paint, e) \o WritePath(x, y, PathEllipse(geometry.size), e)
      [] geometry.shape = "Line" ->
            WriteStroke(paint, geometry.thickness, e)
            \o <<Op("m", <<>>, <<x, y>>, <<>>, e),
                 Op("l", <<>>,
                    <<x + geometry.target.x, y - geometry.target.y>>, <<>>, e),
                 Op("S", <<>>, <<>>, <<>>, e)>>
      [] OTHER ->
            WriteFill(paint, e) \o WritePath(x, y, geometry.path, e)

\* The shape of a Geometry element (lines 249-277).
ShapeOps(x, y, geometry, paint, e) ==
    CASE geometry.shape = "Rect" ->
            IF geometry.size.w > 0 /\ geometry.size.h > 0
            THEN WriteFill(paint, e)
                 \o <<Op("re", <<>>,
                         <<x, y - geometry.size.h,
                           geometry.size.w, geometry.size.h>>, <<>>, e),
                      Op("f", <<>>, <<>>, <<>>, e)>>
            ELSE <<>>
      [] geometry.shape = "Ellipse" ->
            WriteFill(paint, e) \o WritePath(x, y, PathEllipse(geometry.size), e)
      [] geometry.shape = "Line" ->
            WriteStroke(paint, geometry.thickness, e)
            \o <<Op("m", <<>>, <<x, y>>, <<>>, e),
                 Op("l", <<>>,
                    <<x + geometry.target.x, y - geometry.target.y>>, <<>>, e),
                 Op("S", <<>>, <<>>, <<>>, e)>>
      [] OTHER ->
            WriteFill(paint, e) \o WritePath(x, y, geometry.path, e)

\* Element::Geometry (lines 246-280)
GeometryStep(st, x, y, element, e) ==
    Emit(st, <<Op("q", <<>>, <<>>, <<>>, e)>>
             \o ShapeOps(x, y, element.geometry, element.paint, e)
             \o <<Op("Q", <<>>, <<>>, <<>>, e)>>)

\* Element::Image (lines 282-291)
ImageStep(st, x, y, element, im, e) ==
    Emit(st, <<Op("q", <<>>, <<>>, <<>>, e),
               Op("cm", <<>>,
                  <<element.size.w, 0, 0, element.size.h,
                    x, y - element.size.h>>, <<>>, e),
               Op("Do", <<"Im", RemapperMap(im, element.id)>>, <<>>, <<>>, e),
               Op("Q", <<>>, <<>>, <<>>, e)>>)

\* Whether the iteration aborts in Remapper::map (lines 203 and 283).
StepPanics(st, element, fm, im) ==
    \/ /\ element.type = "Text"
       /\ FontChanges(IF FillChanges(st, element)
                      THEN [st EXCEPT !.fill = <<element.fill>>]
                      ELSE st, element)
       /\ RemapperMapPanics(fm, element.face_id)
    \/ /\ element.type = "Image"
       /\ RemapperMapPanics(im, element.id)

\* One iteration of "for (pos, element) in page.elements()" (lines 171-295).
PageStep(st, size, pos, element, fm, im, fnts, e) ==
    LET s0 == EnterState(st, element, e)
        x == pos.x
        y == size.h - pos.y
        s1 == CASE element.type = "Text" ->
                      TextStep(s0, x, y, element, fm, fnts[element.face_id], e)
                [] element.type = "Geometry" -> GeometryStep(s0, x, y, element, e)
                [] element.type = "Image" -> ImageStep(s0, x, y, element, im, e)
                [] OTHER -> s0
    IN  [s1 EXCEPT !.next = e + 1]

\* The end of write_page: leave text mode (lines 297-299).
PageFinish(st) ==
    IF st.in_text_state
    THEN Emit(st, <<Op("ET", <<>>, <<>>, <<>>, 0)>>)
    ELSE st

\* write_page on a whole frame (lines 162-299): the element loop from the
\* locals st on, then the end of the page.
RECURSIVE PageRun(_, _, _, _, _, _)
PageRun(st, size, elements, fm, im, fnts) ==
    IF st.next > Len(elements)
    THEN PageFinish(st)
    ELSE PageRun(PageStep(st, size, elements[st.next][1],
                          elements[st.next][2], fm, im, fnts, st.next),
                 size, elements, fm, im, fnts)

(***************************************************************************)
(* PdfExporter::new (lines 46-83): the collection pass.                    *)
(***************************************************************************)
\* The locals before the loop (lines 47-50).
CollectStart ==
    [glyphs |-> <<>>, font_map |-> RemapperNew, image_map |-> RemapperNew,
     alpha_masks |-> 0]

\* glyphs.entry(face_id).or_default().extend(ids)
GlyphsExtend(g, face_id, ids) ==
    [f \in DOMAIN g \cup {face_id} |->
        (IF f \in DOMAIN g THEN g[f] ELSE {})
            \cup (IF f = face_id THEN ids ELSE {})]

\* A collection that registers an image only when it has an alpha channel.
CollectElementAlphaOnly(c, element, imgs) ==
    CASE element.type = "Text" ->
            [c EXCEPT !.font_map = RemapperInsert(@, element.face_id),
                      !.glyphs = GlyphsExtend(@, element.face_id,
                                    {g.id : g \in Elems(element.glyphs)})]
      [] element.type = "Image" ->
            IF HasAlpha(imgs[element.id].buf.color)
            THEN [c EXCEPT !.alpha_masks = @ + 1,
                           !.image_map = RemapperInsert(@, element.id)]
            ELSE c
      [] OTHER -> c

\* The body of the element loop (lines 54-69).
CollectElement(c, element, imgs) ==
    CASE element.type = "Text" ->
            [c EXCEPT !.font_map = RemapperInsert(@, element.face_id),
                      !.glyphs = GlyphsExtend(@, element.face_id,
                                    {g.id : g \in Elems(element.glyphs)})]
      [] element.type = "Image" ->
            [c EXCEPT !.alpha_masks =
                          IF HasAlpha(imgs[element.id].buf.color)
                          THEN @ + 1
                          ELSE @,
                      !.image_map = RemapperInsert(@, element.id)]
      [] OTHER -> c

\* The elements of all frames, in frame order, then element order.
RECURSIVE AllElements(_)
AllElements(fs) ==
    IF fs = <<>>
    THEN <<>>
    ELSE [k \in 1 .. Len(fs[1].elements) |-> fs[1].elements[k][2]]
            \o AllElements(Tail(fs))

\* The two nested loops (lines 52-71), from element k of the flattened list.
RECURSIVE Collect(_, _, _, _)
Collect(c, els, k, imgs) ==
    IF k > Len(els)
    THEN c
    ELSE Collect(CollectElement(c, els[k], imgs), els, k + 1, imgs)

(***************************************************************************)
(* write_structure (lines 93-153).  A written object is a record with its  *)
(* id, its kind and the entries the writer was given.                      *)
(***************************************************************************)
\* Font entries that pair the groups with the layout ids, not the pdf indices.
ResourceFontsByLayoutId(r, fm) ==
    LET g == RefsFonts(r)
        idx == RemapperLayoutIndices(fm)
    IN  [k \in 1 .. ZipLen(g, idx) |-> <<<<"F", idx[k]>>, g[k].type0_font>>]

\* The font entries of the shared resources dictionary (lines 102-108).
ResourceFonts(r, fm) ==
    LET g == RefsFonts(r)
        idx == RemapperPdfIndices(fm)
    IN  [k \in 1 .. ZipLen(g, idx) |-> <<<<"F", idx[k]>>, g[k].type0_font>>]

\* The image entries of the shared resources dictionary (lines 110-116).
ResourceImages(r, im) ==
    LET ids == RefsImages(r)
        idx == RemapperPdfIndices(im)
    IN  [k \in 1 .. ZipLen(ids, idx) |-> <<<<"Im", idx[k]>>, ids[k]>>]

\* The link annotation of one element, if it is a Link (lines 134-147).
Annotation(size, pos, element) ==
    LET x == pos.x
        y == size.h - pos.y
        w == element.size.w
        h == element.size.h
    IN  [subtype |-> "Link", rect |-> <<x, y - h, x + w, y>>,
         uri |-> element.href]

\* The annotations of a page, in element order (lines 132-150).
RECURSIVE Annotations(_, _, _)
Annotations(size, elements, k) ==
    IF k > Len(elements)
    THEN <<>>
    ELSE (IF elements[k][2].type = "Link"
          THEN <<Annotation(size, elements[k][1], elements[k][2])>>
          ELSE <<>>)
         \o Annotations(size, elements, k + 1)

\* The page objects (lines 121-152).
PageObjects(r, fs) ==
    LET ps == RefsPages(r)
        cs == RefsContents(r)
    IN  [k \in 1 .. ZipLen(Range(0, ZipLen(ps, cs)), fs) |->
            [id |-> ps[k], kind |-> "page", parent |-> r.page_tree,
             media_box |-> <<0, 0, fs[k].size.w, fs[k].size.h>>,
             annotations |-> Annotations(fs[k].size, fs[k].elements, 1),
             contents |-> cs[k]]]

\* write_structure: the catalog, the page tree root, the page objects.
WriteStructure(r, fs, fm, im) ==
    <<[id |-> r.catalog, kind |-> "catalog", pages |-> r.page_tree],
      [id |-> r.page_tree, kind |-> "pages", kids |-> RefsPages(r),
       fonts |-> ResourceFonts(r, fm), x_objects |-> ResourceImages(r, im)]>>
    \o PageObjects(r, fs)

(***************************************************************************)
(* write_fonts (lines 306-430).  The five objects of a face carry the face *)
(* id their metrics, names and bytes are read from; the descriptor's       *)
(* metrics and the widths array are not modelled.                          *)
(***************************************************************************)
\* The objects of one font group (lines 308-428).
FontObjects(fr, face_id, used) ==
    <<[id |-> fr.type0_font, kind |-> "type0_font", face |-> face_id,
       descendant_font |-> fr.cid_font, to_unicode |-> fr.cmap],
      [id |-> fr.cid_font, kind |-> "cid_font", face |-> face_id,
       font_descriptor |-> fr.font_descriptor],
      [id |-> fr.font_descriptor, kind |-> "font_descriptor",
       face |-> face_id, font_file2 |-> fr.data],
      [id |-> fr.cmap, kind |-> "cmap", face |-> face_id, glyphs |-> used],
      [id |-> fr.data, kind |-> "font_data", face |-> face_id,
       glyphs |-> used]>>

\* Whether write_fonts aborts: &self.glyphs[&face_id] on a missing key.
WriteFontsPanics(r, fm, g) ==
    \E k \in 1 .. ZipLen(RefsFonts(r), RemapperLayoutIndices(fm)) :
        RemapperLayoutIndices(fm)[k] \notin DOMAIN g

\* write_fonts: one group per pair of fonts() zipped with layout_indices().
RECURSIVE WriteFonts(_, _, _, _)
WriteFonts(r, fm, g, k) ==
    IF k > ZipLen(RefsFonts(r), RemapperLayoutIndices(fm))
    THEN <<>>
    ELSE LET face_id == RemapperLayoutIndices(fm)[k]
         IN  FontObjects(RefsFonts(r)[k], face_id, g[face_id])
                \o WriteFonts(r, fm, g, k + 1)

(***************************************************************************)
(* write_fonts, the reverse mapping from glyphs to unicode (lines          *)
(* 392-414).  A face's ttf is its character-mapping subtables, each with   *)
(* its is_unicode flag and the codepoints its codepoints() callback is     *)
(* handed, in order, and glyph_index, the face's lookup of a char (<<>>:   *)
(* no glyph).  The BTreeMap is a function from its keys.                   *)
(***************************************************************************)
\* std::char::from_u32: no char for a surrogate or beyond U+10FFFF.
FromU32(n) ==
    IF (n >= 55296 /\ n <= 57343) \/ n > 1114111 THEN <<>> ELSE <<n>>

\* BTreeMap::insert(g, c): the value of a present key is replaced.
BTreeInsert(mapping, g, c) ==
    [k \in DOMAIN mapping \cup {g} |-> IF k = g THEN c ELSE mapping[k]]

\* The closure handed to subtable.codepoints (lines 397-405).
CodepointStep(mapping, ttf, used, n) ==
    IF FromU32(n) = <<>>
    THEN mapping
    ELSE LET c == FromU32(n)[1]
         IN  IF ttf.glyph_index[c] = <<>>
             THEN mapping
             ELSE IF ttf.glyph_index[c][1] \in used
                  THEN BTreeInsert(mapping, ttf.glyph_index[c][1], c)
                  ELSE mapping

\* subtable.codepoints(..): the closure on every codepoint from the k-th on.
RECURSIVE SubtableCodepoints(_, _, _, _, _)
SubtableCodepoints(mapping, ttf, used, codepoints, k) ==
    IF k > Len(codepoints)
    THEN mapping
    ELSE SubtableCodepoints(CodepointStep(mapping, ttf, used, codepoints[k]),
                            ttf, used, codepoints, k + 1)

\* The loop over ttf.character_mapping_subtables() (lines 395-407).
RECURSIVE CmapMapping(_, _, _, _)
CmapMapping(mapping, ttf, used, k) ==
    IF k > Len(ttf.subtables)
    THEN mapping
    ELSE CmapMapping(IF ttf.subtables[k].is_unicode
                     THEN SubtableCodepoints(mapping, ttf, used,
                                             ttf.subtables[k].codepoints, 1)
                     ELSE mapping,
                     ttf, used, k + 1)

\* "for (g, c) in mapping { cmap.pair(g, c) }" (lines 409-413): the pairs in
\* the BTreeMap's key order.
RECURSIVE CmapPairs(_)
CmapPairs(mapping) ==
    IF DOMAIN mapping = {}
    THEN <<>>
    ELSE LET g == CHOOSE m \in DOMAIN mapping :
                      \A x \in DOMAIN mapping : m <= x
         IN  <<<<g, mapping[g]>>>>
                \o CmapPairs([k \in DOMAIN mapping \ {g} |-> mapping[k]])

\* The pairs of the /ToUnicode character map of a face (lines 393-414).
ReverseCmap(ttf, used) == CmapPairs(CmapMapping(<<>>, ttf, used, 1))

(***************************************************************************)
(* encode_image, encode_alpha (lines 522-569).  An image is its source     *)
(* format, its decoded buffer (layout, dimensions, and the pixels as       *)
(* GenericImageView::pixels yields them: Rgba quadruples) and jpeg_ok,     *)
(* whether buf.write_to(.., Jpeg) succeeds on it.                          *)
(***************************************************************************)
\* luma.as_raw(): the samples of a single-channel buffer.
LumaRaw(buf) == [k \in 1 .. Len(buf.pixels) |-> buf.pixels[k][1]]

\* The fallback's pixel loop: r, g, b of every pixel, alpha dropped.
RECURSIVE RgbOf(_)
RgbOf(pixels) ==
    IF pixels = <<>>
    THEN <<>>
    ELSE <<pixels[1][1], pixels[1][2], pixels[1][3]>> \o RgbOf(Tail(pixels))

Encoded(data, filter, color_space) ==
    [ok |-> TRUE, data |-> data, filter |-> filter,
     color_space |-> color_space]

\* The ? of img.buf.write_to(..): the encoder's error is returned.
EncodeError == [ok |-> FALSE]

\* An encode_image whose gray branch takes any source format.
EncodeImageAnyGray(img) ==
    CASE img.format = "Jpeg" /\ img.buf.color = "Luma8" ->
            IF img.jpeg_ok
            THEN Encoded(<<"jpeg", LumaRaw(img.buf)>>, "DctDecode", "DeviceGray")
            ELSE EncodeError
      [] img.format = "Jpeg" /\ img.buf.color = "Rgb8" ->
            IF img.jpeg_ok
            THEN Encoded(<<"jpeg", RgbOf(img.buf.pixels)>>, "DctDecode", "DeviceRgb")
            ELSE EncodeError
      [] img.buf.color = "Luma8" ->
            Encoded(<<"raw", LumaRaw(img.buf)>>, "FlateDecode", "DeviceGray")
      [] OTHER ->
            Encoded(<<"raw", RgbOf(img.buf.pixels)>>, "FlateDecode", "DeviceRgb")

\* encode_image (lines 525-563)
EncodeImage(img) ==
    CASE img.format = "Jpeg" /\ img.buf.color = "Luma8" ->
            IF img.jpeg_ok
            THEN Encoded(<<"jpeg", LumaRaw(img.buf)>>, "DctDecode", "DeviceGray")
            ELSE EncodeError
      [] img.format = "Jpeg" /\ img.buf.color = "Rgb8" ->
            IF img.jpeg_ok
            THEN Encoded(<<"jpeg", RgbOf(img.buf.pixels)>>, "DctDecode", "DeviceRgb")
            ELSE EncodeError
      [] img.format = "Png" /\ img.buf.color = "Luma8" ->
            Encoded(<<"raw", LumaRaw(img.buf)>>, "FlateDecode", "DeviceGray")
      [] OTHER ->
            Encoded(<<"raw", RgbOf(img.buf.pixels)>>, "FlateDecode", "DeviceRgb")

\* encode_alpha (lines 566-569)
EncodeAlpha(img) ==
    [data |-> <<"raw", [k \in 1 .. Len(img.buf.pixels) |-> img.buf.pixels[k][4]]>>,
     filter |-> "FlateDecode"]

(***************************************************************************)
(* write_images (lines 432-475).                                           *)
(***************************************************************************)
\* The objects written for one image (lines 436-473).
ImageObjects(r, id, image_id, img, masks_seen) ==
    LET enc == EncodeImage(img)
    IN  IF enc.ok
        THEN IF HasAlpha(img.buf.color)
             THEN <<[id |-> id, kind |-> "image", image |-> image_id,
                     filter |-> enc.filter, width |-> img.buf.width,
                     height |-> img.buf.height,
                     color_space |-> enc.color_space,
                     bits_per_component |-> 8, data |-> enc.data,
                     s_mask |-> <<RefsAlphaMask(r, masks_seen)>>],
                    [id |-> RefsAlphaMask(r, masks_seen), kind |-> "mask",
                     image |-> image_id, filter |-> EncodeAlpha(img).filter,
                     width |-> img.buf.width, height |-> img.buf.height,
                     color_space |-> "DeviceGray", bits_per_component |-> 8,
                     data |-> EncodeAlpha(img).data, s_mask |-> <<>>]>>
             ELSE <<[id |-> id, kind |-> "image", image |-> image_id,
                     filter |-> enc.filter, width |-> img.buf.width,
                     height |-> img.buf.height,
                     color_space |-> enc.color_space,
                     bits_per_component |-> 8, data |-> enc.data,
                     s_mask |-> <<>>]>>
        ELSE <<[id |-> id, kind |-> "image", image |-> image_id,
                filter |-> "", width |-> 0, height |-> 0,
                color_space |-> "DeviceGray", bits_per_component |-> 1,
                data |-> <<"raw", <<>>>>, s_mask |-> <<>>]>>

\* write_images: from pair k of images() zipped with layout_indices().
RECURSIVE WriteImages(_, _, _, _, _)
WriteImages(r, im, imgs, k, masks_seen) ==
    IF k > ZipLen(RefsImages(r), RemapperLayoutIndices(im))
    THEN <<>>
    ELSE LET image_id == RemapperLayoutIndices(im)[k]
             img == imgs[image_id]
             objs == ImageObjects(r, RefsImages(r)[k], image_id, img, masks_seen)
         IN  objs \o WriteImages(r, im, imgs, k + 1,
                                 IF /\ EncodeImage(img).ok
                                    /\ HasAlpha(img.buf.color)
                                 THEN masks_seen + 1
                                 ELSE masks_seen)

(***************************************************************************)
(* Values of the variables a specification does not use.                   *)
(***************************************************************************)
NoLocal ==
    [content |-> <<>>, face_id |-> <<>>, size |-> 0, fill |-> <<>>,
     in_text_state |-> FALSE, next |-> 0]

IdleExporter ==
    /\ frames = <<>>
    /\ fonts = <<>>
    /\ images = <<>>
    /\ glyphs = <<>>
    /\ writer = <<>>
    /\ page = 0
    /\ local = NoLocal

(***************************************************************************)
(* SpecRefs: Refs::new on every tuple of counts up to MaxCount.            *)
(***************************************************************************)
InitRefs ==
    /\ pc = "Refs::new"
    /\ arg \in [pages : 0 .. MaxCount, fonts : 0 .. MaxCount,
                images : 0 .. MaxCount, alpha_masks : 0 .. MaxCount]
    /\ ret = <<>>
    /\ refs = NoRefs
    /\ font_map = RemapperNew
    /\ image_map = RemapperNew
    /\ IdleExporter

CallRefsNew ==
    /\ pc = "Refs::new"
    /\ refs' = RefsNew(arg.pages, arg.fonts, arg.images, arg.alpha_masks)
    /\ pc' = "returned"
    /\ UNCHANGED <<frames, fonts, images, glyphs, font_map, image_map,
                   writer, page, local, arg, ret>>

NextRefs == CallRefsNew

SpecRefs == InitRefs /\ [][NextRefs]_vars

(***************************************************************************)
(* SpecRemap: any sequence of at most MaxInserts insert calls on one       *)
(* Remapper (font_map), over the ids 1 .. MaxIds.  arg records the ids     *)
(* passed to insert, in call order.                                        *)
(***************************************************************************)
InitRemap ==
    /\ pc = "Remapper"
    /\ arg = <<>>
    /\ ret = <<>>
    /\ refs = NoRefs
    /\ font_map = RemapperNew
    /\ image_map = RemapperNew
    /\ IdleExporter

CallInsert ==
    /\ pc = "Remapper"
    /\ Len(arg) < MaxInserts
    /\ \E index \in 1 .. MaxIds :
          /\ font_map' = RemapperInsert(font_map, index)
          /\ arg' = Append(arg, index)
    /\ UNCHANGED <<pc, frames, fonts, images, glyphs, image_map, refs,
                   writer, page, local, ret>>

NextRemap == CallInsert

SpecRemap == InitRemap /\ [][NextRemap]_vars

(***************************************************************************)
(* The export: pdf() is PdfExporter::new(ctx, frames).write() (lines       *)
(* 30-32, 85-91).  write_page is run one element at a time.                *)
(***************************************************************************)
\* The number of pages write_pages writes: contents() zipped with frames.
PageCount == ZipLen(RefsContents(refs), frames)

\* PdfExporter::new
New ==
    /\ pc = "new"
    /\ LET c == Collect(CollectStart, AllElements(frames), 1, images)
       IN  /\ glyphs' = c.glyphs
           /\ font_map' = c.font_map
           /\ image_map' = c.image_map
           /\ refs' = RefsNew(Len(frames), RemapperLen(c.font_map),
                              RemapperLen(c.image_map), c.alpha_masks)
    /\ writer' = <<>>
    /\ pc' = "write_structure"
    /\ UNCHANGED <<frames, fonts, images, page, local, arg, ret>>

\* write_structure
DoWriteStructure ==
    /\ pc = "write_structure"
    /\ writer' = writer \o WriteStructure(refs, frames, font_map, image_map)
    /\ page' = 1
    /\ pc' = IF PageCount = 0 THEN "write_fonts" ELSE "write_pages"
    /\ UNCHANGED <<frames, fonts, images, glyphs, font_map, image_map, refs,
                   local, arg, ret>>

\* write_page: the locals are initialised.
BeginPage ==
    /\ pc = "write_pages"
    /\ page <= PageCount
    /\ local.next = 0
    /\ local' = PageLocals
    /\ UNCHANGED <<pc, frames, fonts, images, glyphs, font_map, image_map,
                   refs, writer, page, arg, ret>>

\* write_page: one iteration of the element loop.
PageElement ==
    /\ pc = "write_pages"
    /\ local.next \in 1 .. Len(frames[page].elements)
    /\ LET pos == frames[page].elements[local.next][1]
           element == frames[page].elements[local.next][2]
       IN  IF StepPanics(local, element, font_map, image_map)
           THEN /\ pc' = "panic"
                /\ UNCHANGED local
           ELSE /\ local' = PageStep(local, frames[page].size, pos, element,
                                     font_map, image_map, fonts, local.next)
                /\ UNCHANGED pc
    /\ UNCHANGED <<frames, fonts, images, glyphs, font_map, image_map, refs,
                   writer, page, arg, ret>>

\* write_page: the end of the loop; the stream is written under the page's
\* content id.
EndPage ==
    /\ pc = "write_pages"
    /\ local.next = Len(frames[page].elements) + 1
    /\ writer' = Append(writer,
                    [id |-> RefsContents(refs)[page], kind |-> "content",
                     content |-> PageFinish(local).content,
                     filter |-> "FlateDecode"])
    /\ local' = NoLocal
    /\ page' = page + 1
    /\ pc' = IF page + 1 > PageCount THEN "write_fonts" ELSE "write_pages"
    /\ UNCHANGED <<frames, fonts, images, glyphs, font_map, image_map, refs,
                   arg, ret>>

\* write_fonts
DoWriteFonts ==
    /\ pc = "write_fonts"
    /\ IF WriteFontsPanics(refs, font_map, glyphs)
       THEN /\ pc' = "panic"
            /\ UNCHANGED writer
       ELSE /\ writer' = writer \o WriteFonts(refs, font_map, glyphs, 1)
            /\ pc' = "write_images"
    /\ UNCHANGED <<frames, fonts, images, glyphs, font_map, image_map, refs,
                   page, local, arg, ret>>

\* write_images
DoWriteImages ==
    /\ pc = "write_images"
    /\ writer' = writer \o WriteImages(refs, image_map, images, 1, 0)
    /\ pc' = "finish"
    /\ UNCHANGED <<frames, fonts, images, glyphs, font_map, image_map, refs,
                   page, local, arg, ret>>

\* self.writer.finish(self.refs.catalog)
Finish ==
    /\ pc = "finish"
    /\ ret' = <<refs.catalog>>
    /\ pc' = "done"
    /\ UNCHANGED <<frames, fonts, images, glyphs, font_map, image_map, refs,
                   writer, page, local, arg>>

Next ==
    \/ New
    \/ DoWriteStructure
    \/ BeginPage
    \/ PageElement
    \/ EndPage
    \/ DoWriteFonts
    \/ DoWriteImages
    \/ Finish

\* The exporter before PdfExporter::new, for given frames and stores.
Start(fs, fnts, imgs) ==
    /\ pc = "new"
    /\ frames = fs
    /\ fonts = fnts
    /\ images = imgs
    /\ glyphs = <<>>
    /\ font_map = RemapperNew
    /\ image_map = RemapperNew
    /\ refs = NoRefs
    /\ writer = <<>>
    /\ page = 0
    /\ local = NoLocal
    /\ arg = <<>>
    /\ ret = <<>>

(***************************************************************************)
(* Inputs.                                                                 *)
(***************************************************************************)
Black == Rgba(0, 0, 0, 255)
Red == Rgba(255, 0, 0, 255)

FaceIds == {1, 2}
ImageIds == {1, 2}

\* A font store: every face gives glyphs 1 and 2 the advance 0.6 em.
StdFonts == [f \in FaceIds |-> [advance |-> [g \in {1, 2} |-> 600]]]

\* A decoded 1x1 image.
Img(format, color, px, jpeg_ok) ==
    [format |-> format,
     buf |-> [color |-> color, width |-> 1, height |-> 1, pixels |-> <<px>>],
     jpeg_ok |-> jpeg_ok]

\* The images of the export's image stores: with alpha, without, and one
\* that the JPEG encoder rejects.
StoreImages ==
    {Img("Png", "Rgba8", <<10, 20, 30, 128>>, TRUE),
     Img("Jpeg", "Rgb8", <<10, 20, 30, 255>>, TRUE),
     Img("Jpeg", "Rgb8", <<10, 20, 30, 255>>, FALSE)}

\* The elements of the export's frames, all placed at (10, 20).
ExportElements ==
    {<<Point(10, 20), e>> :
        e \in {Text(f, 10, Black, <<Glyph(f, 600, 0)>>) : f \in FaceIds}
              \cup {Image(i, Size(20, 10)) : i \in ImageIds}
              \cup {Geometry(Rect(Size(5, 8)), Black),
                    Link("uri", Size(30, 12))}}

\* The frame list with the given element counts, filled from els in order.
RECURSIVE Split(_, _)
Split(els, lens) ==
    IF lens = <<>>
    THEN <<>>
    ELSE <<Frame(Size(200, 100), SubSeq(els, 1, lens[1]))>>
            \o Split(SubSeq(els, lens[1] + 1, Len(els)), Tail(lens))

RECURSIVE Sum(_)
Sum(s) == IF s = <<>> THEN 0 ELSE s[1] + Sum(Tail(s))

\* Spec: the export of at most MaxFrames frames holding at most MaxElems
\* elements together, over every image store.
Init ==
    \E els \in SeqsUpTo(ExportElements, MaxElems),
       lens \in SeqsUpTo(0 .. MaxElems, MaxFrames),
       imgs \in [ImageIds -> StoreImages] :
        /\ Sum(lens) = Len(els)
        /\ Start(Split(els, lens), StdFonts, imgs)

Spec == Init /\ [][Next]_vars

\* A path with one segment of every kind, none on the element's baseline.
ZigZag ==
    <<MoveTo(Point(0, 2)), LineTo(Point(4, 6)),
      CubicTo(Point(5, 7), Point(6, 7), Point(7, 3)), ClosePath>>

\* The glyph run of the texts of a page: the second glyph is set wider than
\* its advance and shifted.
Run == <<Glyph(1, 600, 0), Glyph(2, 620, 10)>>

\* The elements of a page: texts that differ in face, size, fill and
\* position, every shape (one rectangle degenerate), an image and a link.
PageElements ==
    {<<Point(10, 20), Text(1, 10, Black, Run)>>,
     <<Point(30, 45), Text(1, 10, Black, Run)>>,
     <<Point(10, 20), Text(1, 12, Black, Run)>>,
     <<Point(10, 20), Text(2, 10, Black, Run)>>,
     <<Point(10, 20), Text(1, 10, Red, Run)>>,
     <<Point(30, 45), Text(2, 12, Red, Run)>>,
     <<Point(10, 20), Geometry(Rect(Size(5, 8)), Black)>>,
     <<Point(10, 20), Geometry(Rect(Size(0, 8)), Red)>>,
     <<Point(30, 45), Geometry(Ellipse(Size(8, 4)), Red)>>,
     <<Point(10, 20), Geometry(Line(Point(7, 3), 2), Black)>>,
     <<Point(30, 45), Geometry(Path(ZigZag), Black)>>,
     <<Point(10, 20), Image(1, Size(20, 10))>>,
     <<Point(30, 45), Link("uri", Size(30, 12))>>}

\* SpecPage: the export of one frame of at most MaxPageElems elements.
InitPage ==
    \E els \in SeqsUpTo(PageElements, MaxPageElems) :
        Start(<<Frame(Size(200, 100), els)>>, StdFonts,
              [i \in ImageIds |-> Img("Png", "Rgba8", <<10, 20, 30, 128>>, TRUE)])

SpecPage == InitPage /\ [][Next]_vars

\* SpecScenario: the export of one frame of size 200x100 with one Text at
\* (10, 20) of the glyphs 5 and 6, over the advances 550 and 600 (set and
\* font-native) and the offsets 0 and 30.
InitScenario ==
    \E native, set \in [{5, 6} -> {550, 600}], off \in [{5, 6} -> {0, 30}] :
        Start(<<Frame(Size(200, 100),
                      <<<<Point(10, 20),
                          Text(1, 12, Black,
                               <<Glyph(5, set[5], off[5]),
                                 Glyph(6, set[6], off[6])>>)>>>>)>>,
              [f \in {1} |-> [advance |-> native]],
              [i \in {} |-> i])

SpecScenario == InitScenario /\ [][Next]_vars

(***************************************************************************)
(* SpecImage: encode_image on every combination of source format and       *)
(* buffer layout.                                                          *)
(***************************************************************************)
Formats == {"Jpeg", "Png", "Gif"}
Layouts ==
    {"Luma8", "LumaA8", "Rgb8", "Rgba8", "Luma16", "LumaA16", "Rgb16", "Rgba16"}
Gray(color) == color \in {"Luma8", "LumaA8", "Luma16", "LumaA16"}

\* The pixels a buffer of the layout can yield: gray layouts have equal
\* colour channels, layouts without alpha are opaque.
LayoutPixels(color) ==
    {<<r, IF Gray(color) THEN r ELSE 20, IF Gray(color) THEN r ELSE 30, a>> :
        r \in {10}, a \in IF HasAlpha(color) THEN {0, 128} ELSE {255}}

InitImage ==
    /\ pc = "encode_image"
    /\ \E format \in Formats, color \in Layouts, jpeg_ok \in BOOLEAN :
          \E px \in LayoutPixels(color) :
              arg = Img(format, color, px, jpeg_ok)
    /\ ret = <<>>
    /\ refs = NoRefs
    /\ font_map = RemapperNew
    /\ image_map = RemapperNew
    /\ IdleExporter

CallEncodeImage ==
    /\ pc = "encode_image"
    /\ ret' = EncodeImage(arg)
    /\ pc' = "returned"
    /\ UNCHANGED <<frames, fonts, images, glyphs, font_map, image_map, refs,
                   writer, page, local, arg>>

NextImage == CallEncodeImage

SpecImage == InitImage /\ [][NextImage]_vars

(***************************************************************************)
(* Properties.                                                             *)
(***************************************************************************)
\* Whether the ids of a sequence are consecutive and ascending.
Contiguous(s) == \A k \in 1 .. Len(s) - 1 : s[k + 1] = s[k] + 1

\* The five ids of every group of fonts(), group by group.
FontBand(r) ==
    LET g == RefsFonts(r)
    IN  [k \in 1 .. OBJECTS_PER_FONT * Len(g) |->
            LET grp == g[(k - 1) \div OBJECTS_PER_FONT + 1]
                j == (k - 1) % OBJECTS_PER_FONT
            IN  <<grp.type0_font, grp.cid_font, grp.font_descriptor,
                  grp.cmap, grp.data>>[j + 1]]

\* alpha_mask(0), ..., alpha_mask(a - 1)
MaskBand(r, a) == [k \in 1 .. a |-> RefsAlphaMask(r, k - 1)]

\* The bands Refs exposes, in allocation order.
Bands(r, a) ==
    <<<<r.catalog>>, <<r.page_tree>>, RefsPages(r), RefsContents(r),
      FontBand(r), RefsImages(r), MaskBand(r, a)>>

\* C1: for any counts (p, f, i, a) given to Refs::new, the bands Refs exposes
\* (catalog, page tree, pages(), contents(), the 5-id groups of fonts(),
\* images(), alpha_mask(0 .. a-1)) are pairwise disjoint, each contiguous,
\* start at 1 with catalog = 1, and their union is exactly the ids 1 .. end-1;
\* pages() and contents() yield p ids each, fonts() f groups, images() i ids.
C1_BandsPartitionIds ==
    pc = "returned" =>
        LET b == Bands(refs, arg.alpha_masks)
        IN  /\ refs.catalog = 1
            /\ \A m, n \in 1 .. Len(b) :
                  m # n => Elems(b[m]) \cap Elems(b[n]) = {}
            /\ \A m \in 1 .. Len(b) : Contiguous(b[m])
            /\ UNION {Elems(b[m]) : m \in 1 .. Len(b)} = 1 .. (refs.end - 1)
            /\ Len(RefsPages(refs)) = arg.pages
            /\ Len(RefsContents(refs)) = arg.pages
            /\ Len(RefsFonts(refs)) = arg.fonts
            /\ Len(RefsImages(refs)) = arg.images

\* The ids of a sequence in first-seen order, without the repeats.
RECURSIVE Dedup(_)
Dedup(s) ==
    IF s = <<>>
    THEN <<>>
    ELSE LET front == Dedup(SubSeq(s, 1, Len(s) - 1))
             last == s[Len(s)]
         IN  IF last \in Elems(front) THEN front ELSE Append(front, last)

\* C3 (state part): with d the inserted ids deduplicated in first-seen order,
\* map(d[k]) = k for every k, layout_indices() yields d in order and
\* pdf_indices() yields 0 .. len(d).
C3_Bijection ==
    pc = "Remapper" =>
        LET d == Dedup(arg)
        IN  /\ \A k \in 0 .. Len(d) - 1 :
                  /\ ~RemapperMapPanics(font_map, d[k + 1])
                  /\ RemapperMap(font_map, d[k + 1]) = k
            /\ RemapperLayoutIndices(font_map) = d
            /\ RemapperPdfIndices(font_map) = Range(0, Len(d))
            /\ RemapperLen(font_map) = Len(d)

\* C3 (step part): an insert of an already-seen id changes neither the count
\* nor any existing mapping.
C3_ReinsertStep ==
    (pc = "Remapper" /\ arg' # arg /\ arg'[Len(arg')] \in Elems(arg)) =>
        /\ RemapperLen(font_map') = RemapperLen(font_map)
        /\ Len(RemapperPdfIndices(font_map')) = Len(RemapperPdfIndices(font_map))
        /\ \A id \in Elems(arg) :
              /\ ~RemapperMapPanics(font_map', id)
              /\ RemapperMap(font_map', id) = RemapperMap(font_map, id)
        /\ RemapperLayoutIndices(font_map') = RemapperLayoutIndices(font_map)

\* C3: for any sequence of Remapper.insert calls (with repeats) the Remapper
\* is the bijection between the first-seen ids and 0 .. len, and re-inserting
\* an id is a no-op.
C3_RemapperBijection == []C3_Bijection /\ [][C3_ReinsertStep]_vars

\* C3 witness: a sequence with a repeat after which two ids are mapped.
C3_Witness ==
    /\ pc = "Remapper"
    /\ Len(arg) > Cardinality(Elems(arg))
    /\ RemapperLen(font_map) >= 2
    /\ arg[Len(arg)] \in Elems(SubSeq(arg, 1, Len(arg) - 1))

(***************************************************************************)
(* The written document, read back from the writer.                        *)
(***************************************************************************)
\* The written objects with the given id.
Objects(id) == {k \in 1 .. Len(writer) : writer[k].id = id}

\* The object with the given id, when exactly one was written.
Obj(id) == writer[CHOOSE k \in Objects(id) : TRUE]

\* The written objects of a kind.
OfKind(kind) == {k \in 1 .. Len(writer) : writer[k].kind = kind}

\* The references a resource dictionary gives a name.
Lookup(pairs, name) == {pairs[k][2] : k \in {i \in 1 .. Len(pairs) : pairs[i][1] = name}}

\* The page tree root, which holds the shared resources dictionary.
PageTree == Obj(Obj(ret[1]).pages)

\* The content stream of page j: the contents entry of the j-th kid.
ContentOf(j) == Obj(Obj(PageTree.kids[j]).contents).content

\* The images that Image elements of the frames use, and those with alpha.
UsedImages ==
    {e.id : e \in {x \in Elems(AllElements(frames)) : x.type = "Image"}}
UsedAlphaImages == {i \in UsedImages : HasAlpha(images[i].buf.color)}

\* C2: when exactly k distinct used images have an alpha channel, the export
\* writes exactly k mask objects, each the soft mask of its own primary
\* image, and the alpha-mask count handed to the allocator (the size of the
\* alpha-mask band) is k.
C2_AlphaMaskPairing ==
    pc = "done" =>
        LET k == Cardinality(UsedAlphaImages)
        IN  /\ Cardinality(OfKind("mask")) = k
            /\ \A m \in OfKind("mask") :
                  \E o \in OfKind("image") :
                      /\ writer[o].s_mask = <<writer[m].id>>
                      /\ writer[o].image = writer[m].image
                      /\ \A o2 \in OfKind("image") :
                            writer[o2].s_mask = <<writer[m].id>> => o2 = o
            /\ refs.end - refs.alpha_masks_start = k

\* The font-select operator in force at operator k of a content stream.
ActiveFont(content, k) ==
    content[CHOOSE i \in 1 .. k :
                /\ content[i].op = "Tf"
                /\ \A j \in (i + 1) .. k : content[j].op # "Tf"]

\* Whether the name of a font resolves to the font group with pdf index
\* n, and that group's five objects embed the face.
FontResolves(name, face_id) ==
    /\ name[1] = "F"
    /\ Lookup(PageTree.fonts, name)
          = {refs.fonts_start + OBJECTS_PER_FONT * name[2]}
    /\ \A t \in Lookup(PageTree.fonts, name) :
          /\ \A d \in 0 .. OBJECTS_PER_FONT - 1 :
                /\ Cardinality(Objects(t + d)) = 1
                /\ Obj(t + d).face = face_id
          /\ Obj(t).kind = "type0_font"
          /\ Obj(Obj(t).descendant_font).kind = "cid_font"
          /\ Obj(Obj(t).to_unicode).kind = "cmap"
          /\ Obj(Obj(Obj(t).descendant_font).font_descriptor).kind
                = "font_descriptor"
          /\ Obj(Obj(Obj(Obj(t).descendant_font).font_descriptor).font_file2).kind
                = "font_data"
          /\ {Obj(t).descendant_font, Obj(t).to_unicode,
              Obj(Obj(t).descendant_font).font_descriptor,
              Obj(Obj(Obj(t).descendant_font).font_descriptor).font_file2}
                = (t + 1) .. (t + OBJECTS_PER_FONT - 1)

\* Whether the name of an image resolves to the image id with pdf index n,
\* and the image object written under it is the image.
ImageResolves(name, image_id) ==
    /\ name[1] = "Im"
    /\ Lookup(PageTree.x_objects, name) = {refs.images_start + name[2]}
    /\ \A t \in Lookup(PageTree.x_objects, name) :
          /\ Cardinality(Objects(t)) = 1
          /\ Obj(t).kind = "image"
          /\ Obj(t).image = image_id

\* C4: every resource name used in a content stream resolves to the right
\* object: a Text element with face f is drawn with the font name F<k> that
\* the shared resources dictionary maps to the composite-font id of the k-th
\* font group, under whose five ids write_fonts embeds face f; an Image
\* element with image m is painted with the name Im<k> that the dictionary
\* maps to the k-th image id, under which write_images writes image m.
C4_NamesResolve ==
    /\ pc # "panic"
    /\ pc = "done" =>
        \A j \in 1 .. Len(frames) :
            /\ Len(PageTree.kids) = Len(frames)
            /\ \A e \in 1 .. Len(frames[j].elements) :
                  LET element == frames[j].elements[e][2]
                      content == ContentOf(j)
                      ops == {k \in 1 .. Len(content) : content[k].elem = e}
                  IN  /\ element.type = "Text" =>
                            /\ \E k \in ops : content[k].op = "TJ"
                            /\ \A k \in ops :
                                  content[k].op = "TJ" =>
                                      /\ \E i \in 1 .. k : content[i].op = "Tf"
                                      /\ FontResolves(ActiveFont(content, k).name,
                                                      element.face_id)
                      /\ element.type = "Image" =>
                            /\ \E k \in ops : content[k].op = "Do"
                            /\ \A k \in ops :
                                  content[k].op = "Do" =>
                                      ImageResolves(content[k].name, element.id)

\* C4 witness: a finished export in which a text of face 2 and image 2 are
\* the first of their kind, so that F0 and Im0 name resources with id 2.
C4_Witness ==
    /\ pc = "done"
    /\ RemapperLayoutIndices(font_map) = <<2>>
    /\ RemapperLayoutIndices(image_map) = <<2>>
    /\ Len(frames) = 2

(***************************************************************************)
(* Content streams, read back.                                             *)
(***************************************************************************)
\* The streams to look at: <<operators, frame, finished>>, the one being
\* written and the ones already written (the k-th of them is frame k's).
Streams ==
    (IF pc = "write_pages" /\ local.next > 0
     THEN {<<local.content, page, FALSE>>}
     ELSE {})
    \cup {<<writer[k].content,
            Cardinality({i \in OfKind("content") : i <= k}), TRUE>> :
            k \in OfKind("content")}

\* The positions of an operator in a stream.
OpsOf(content, names) == {k \in 1 .. Len(content) : content[k].op \in names}

\* Begin-texts less end-texts among the first k operators.
TextDepth(content, k) ==
    Cardinality({i \in 1 .. k : content[i].op = "BT"})
        - Cardinality({i \in 1 .. k : content[i].op = "ET"})

TextOperators == {"Tf", "Tm", "TJ"}
PaintOperators == {"q", "Q", "re", "m", "l", "c", "h", "f", "S", "cm", "Do"}

\* C5: in the operator stream of every frame begin-text and end-text strictly
\* alternate starting with begin-text, the stream ends outside text mode,
\* every text operator is emitted inside text mode, every Geometry or Image
\* painting operator outside it, and a Link element never changes the mode.
C5_TextMode ==
    \A s \in Streams :
        LET content == s[1]
            elements == frames[s[2]].elements
        IN  /\ \A k \in 1 .. Len(content) :
                  /\ TextDepth(content, k) \in {0, 1}
                  /\ content[k].op \in TextOperators =>
                        TextDepth(content, k) = 1
                  /\ content[k].op \in PaintOperators =>
                        TextDepth(content, k) = 0
                  /\ content[k].elem > 0 =>
                        /\ elements[content[k].elem][2].type = "Link" =>
                              content[k].op \notin {"BT", "ET"}
                        /\ content[k].op \in TextOperators =>
                              elements[content[k].elem][2].type = "Text"
            /\ s[3] => TextDepth(content, Len(content)) = 0
            /\ \A e \in 1 .. Len(elements) :
                  \/ elements[e][2].type \notin {"Geometry", "Image"}
                  \/ ~s[3] /\ e >= local.next
                  \/ \E k \in OpsOf(content, {"q"}) : content[k].elem = e

\* C5 witness: a finished stream that entered text mode twice and was closed
\* by the end of the frame.
C5_Witness ==
    \E s \in Streams :
        /\ s[3]
        /\ Cardinality(OpsOf(s[1], {"BT"})) = 2
        /\ s[1][Len(s[1])].op = "ET"
        /\ s[1][Len(s[1])].elem = 0

\* The Text elements of a frame that start a maximal run of identical
\* (font, size) pairs in the frame's sequence of Text elements.
RunStarts(elements) ==
    {e \in 1 .. Len(elements) :
        /\ elements[e][2].type = "Text"
        /\ LET before == {d \in 1 .. (e - 1) : elements[d][2].type = "Text"}
           IN  \/ before = {}
               \/ LET d == CHOOSE x \in before : \A z \in before : z <= x
                  IN  <<elements[d][2].face_id, elements[d][2].size>>
                        # <<elements[e][2].face_id, elements[e][2].size>>}

\* C6: the number of font-select operators of a frame's content stream is
\* the number of maximal runs of identical (font, size) pairs in the frame's
\* sequence of Text elements: one operator at the first element of each run,
\* none at the others, whatever lies between the Text elements.
C6_FontSelectPerRun ==
    \A s \in Streams :
        LET content == s[1]
            elements == frames[s[2]].elements
            done == IF s[3] THEN Len(elements) ELSE local.next - 1
            starts == {e \in RunStarts(elements) : e <= done}
        IN  /\ Cardinality(OpsOf(content, {"Tf"})) = Cardinality(starts)
            /\ {content[k].elem : k \in OpsOf(content, {"Tf"})} = starts

\* C6 witness: a finished stream of one run of two Text elements with a
\* Geometry or an Image between them.
C6_Witness ==
    \E s \in Streams :
        /\ s[3]
        /\ Cardinality(RunStarts(frames[s[2]].elements)) = 1
        /\ Len(frames[s[2]].elements) = 3
        /\ frames[s[2]].elements[1][2].type = "Text"
        /\ frames[s[2]].elements[2][2].type \in {"Geometry", "Image"}
        /\ frames[s[2]].elements[3][2].type = "Text"

\* The fill colour in force after the first k operators of a stream, and the
\* colours saved by the open save-states: fill-color-set sets it, restore
\* brings back the colour of the matching save.
RECURSIVE FillAfter(_, _)
FillAfter(content, k) ==
    IF k = 0
    THEN [cur |-> <<>>, saved |-> <<>>]
    ELSE LET b == FillAfter(content, k - 1)
             o == content[k]
         IN  CASE o.op = "rg" -> [b EXCEPT !.cur = <<o.args>>]
               [] o.op = "q" -> [b EXCEPT !.saved = <<b.cur>> \o @]
               [] o.op = "Q" -> [cur |-> b.saved[1], saved |-> Tail(b.saved)]
               [] OTHER -> b

\* C7 as claimed: no fill-color-set operator re-sets the colour that is
\* active in the content stream at that point.
C7_NoRedundantFill ==
    \A s \in Streams :
        \A k \in OpsOf(s[1], {"rg"}) :
            FillAfter(s[1], k - 1).cur # <<s[1][k].args>>

\* Whether an element is a Geometry that is filled.
Filled(element) ==
    /\ element.type = "Geometry"
    /\ \/ element.geometry.shape \in {"Ellipse", "Path"}
       \/ /\ element.geometry.shape = "Rect"
          /\ element.geometry.size.w > 0
          /\ element.geometry.size.h > 0

\* C7 as amended: a Text element emits a fill-color-set operator exactly
\* when its paint differs from the paint of the previous Text element of the
\* frame (always, when it is the first); a filled Geometry always emits one,
\* for its own paint, between its save and its restore; nothing else emits
\* one.
C7_FillPerPaintChange ==
    \A s \in Streams :
        LET content == s[1]
            elements == frames[s[2]].elements
            done == IF s[3] THEN Len(elements) ELSE local.next - 1
        IN  \A e \in 1 .. done :
                LET element == elements[e][2]
                    fills == {k \in OpsOf(content, {"rg"}) : content[k].elem = e}
                    before == {d \in 1 .. (e - 1) : elements[d][2].type = "Text"}
                    changes ==
                        \/ before = {}
                        \/ elements[CHOOSE x \in before :
                                        \A z \in before : z <= x][2].fill
                              # element.fill
                IN  /\ element.type = "Text" =>
                          /\ Cardinality(fills) = IF changes THEN 1 ELSE 0
                          /\ \A k \in fills :
                                content[k].args
                                    = <<element.fill.r, element.fill.g,
                                        element.fill.b>>
                    /\ Filled(element) =>
                          /\ Cardinality(fills) = 1
                          /\ \A k \in fills :
                                /\ content[k].args
                                      = <<element.paint.r, element.paint.g,
                                          element.paint.b>>
                                /\ content[k - 1].op = "q"
                                /\ content[k - 1].elem = e
                    /\ (element.type # "Text" /\ ~Filled(element)) =>
                          fills = {}

\* C7 witness: a finished stream in which a filled Geometry sets the colour
\* the text before it had made active, and the text after it sets none.
C7_Witness ==
    \E s \in Streams :
        /\ s[3]
        /\ Len(frames[s[2]].elements) = 3
        /\ frames[s[2]].elements[1][2].type = "Text"
        /\ Filled(frames[s[2]].elements[2][2])
        /\ frames[s[2]].elements[3][2].type = "Text"
        /\ frames[s[2]].elements[1][2].fill = frames[s[2]].elements[2][2].paint
        /\ frames[s[2]].elements[1][2].fill = frames[s[2]].elements[3][2].fill
        /\ Cardinality(OpsOf(s[1], {"rg"})) = 2

\* The points an operator places, in output space.
OutPoints(o) ==
    CASE o.op = "Tm" -> <<Point(o.args[5], o.args[6])>>
      [] o.op = "re" ->
            <<Point(o.args[1], o.args[2]),
              Point(o.args[1] + o.args[3], o.args[2] + o.args[4])>>
      [] o.op = "cm" ->
            <<Point(o.args[5], o.args[6]),
              Point(o.args[5] + o.args[1], o.args[6] + o.args[4])>>
      [] o.op \in {"m", "l"} -> <<Point(o.args[1], o.args[2])>>
      [] o.op = "c" ->
            <<Point(o.args[1], o.args[2]), Point(o.args[3], o.args[4]),
              Point(o.args[5], o.args[6])>>
      [] OTHER -> <<>>

RECURSIVE Concat(_)
Concat(ss) == IF ss = <<>> THEN <<>> ELSE ss[1] \o Concat(Tail(ss))

\* The points an element places, in layout space (y grows downwards): a box
\* is given by its lower left and its upper right corner.
Box(pos, size) ==
    <<Point(pos.x, pos.y + size.h), Point(pos.x + size.w, pos.y)>>
Shifted(pos, path) ==
    Concat([k \in 1 .. Len(path) |->
              [i \in 1 .. Len(path[k].pts) |->
                  Point(pos.x + path[k].pts[i].x, pos.y + path[k].pts[i].y)]])
LayoutPoints(pos, element) ==
    CASE element.type = "Text" -> <<pos>>
      [] element.type \in {"Image", "Link"} -> Box(pos, element.size)
      [] element.geometry.shape = "Rect" ->
            IF Filled(element) THEN Box(pos, element.geometry.size) ELSE <<>>
      [] element.geometry.shape = "Line" ->
            <<pos, Point(pos.x + element.geometry.target.x,
                         pos.y + element.geometry.target.y)>>
      [] element.geometry.shape = "Ellipse" ->
            Shifted(pos, PathEllipse(element.geometry.size))
      [] OTHER -> Shifted(pos, element.geometry.path)

\* The layout points (x, y) of a page of height h as (x, h - y).
Converted(points, h) ==
    [k \in 1 .. Len(points) |-> Point(points[k].x, h - points[k].y)]

\* The annotations of the written page object of frame j.
AnnotationsOf(j) == writer[CHOOSE k \in OfKind("page") :
                        Cardinality({i \in OfKind("page") : i <= k}) = j].annotations

\* C8: every layout-space point (x, y) the export places on a page of height
\* H appears in the output at (x, H - y): text origins, rectangle and image
\* corners, line endpoints, the points of ellipse and path segments, and the
\* corners of link annotation rectangles.
C8_CoordinateConversion ==
    \A s \in Streams :
        LET content == s[1]
            frame == frames[s[2]]
            done == IF s[3] THEN Len(frame.elements) ELSE local.next - 1
            links == {e \in 1 .. Len(frame.elements) :
                         frame.elements[e][2].type = "Link"}
        IN  /\ \A e \in 1 .. done :
                  frame.elements[e][2].type # "Link" =>
                      Concat([k \in 1 .. Len(content) |->
                                 IF content[k].elem = e
                                 THEN OutPoints(content[k])
                                 ELSE <<>>])
                        = Converted(LayoutPoints(frame.elements[e][1],
                                                 frame.elements[e][2]),
                                    frame.size.h)
            /\ Len(AnnotationsOf(s[2])) = Cardinality(links)
            /\ \A e \in links :
                  LET a == AnnotationsOf(s[2])[Cardinality({d \in links : d <= e})]
                  IN  <<Point(a.rect[1], a.rect[2]), Point(a.rect[3], a.rect[4])>>
                        = Converted(LayoutPoints(frame.elements[e][1],
                                                 frame.elements[e][2]),
                                    frame.size.h)

\* The frame and the font store of the end-to-end scenario: a frame of
\* 200x100 with one Text at (10, 20), glyph ids 5 then 6, font-native
\* advances 600 and 550, intended advances 600 and 600, offsets 0 and 0.
IsScenario ==
    /\ Len(frames) = 1
    /\ frames[1].size = Size(200, 100)
    /\ Len(frames[1].elements) = 1
    /\ frames[1].elements[1][1] = Point(10, 20)
    /\ frames[1].elements[1][2].type = "Text"
    /\ frames[1].elements[1][2].glyphs = <<Glyph(5, 600, 0), Glyph(6, 600, 0)>>
    /\ FaceAdvance(fonts[1], 5) = <<600>>
    /\ FaceAdvance(fonts[1], 6) = <<550>>

\* The same with the font-native advances 550 and 600.
IsScenarioSwapped ==
    /\ Len(frames) = 1
    /\ frames[1].size = Size(200, 100)
    /\ Len(frames[1].elements) = 1
    /\ frames[1].elements[1][1] = Point(10, 20)
    /\ frames[1].elements[1][2].type = "Text"
    /\ frames[1].elements[1][2].glyphs = <<Glyph(5, 600, 0), Glyph(6, 600, 0)>>
    /\ FaceAdvance(fonts[1], 5) = <<550>>
    /\ FaceAdvance(fonts[1], 6) = <<600>>

\* Whether a stream holds exactly one font-select, then one text-matrix at
\* (x, y), then one positioned show of exactly the given items.
ShowsAt(content, x, y, items) ==
    /\ Cardinality(OpsOf(content, {"Tf"})) = 1
    /\ Cardinality(OpsOf(content, {"Tm"})) = 1
    /\ Cardinality(OpsOf(content, {"TJ"})) = 1
    /\ \E i, j, k \in 1 .. Len(content) :
          /\ i < j
          /\ j < k
          /\ content[i].op = "Tf"
          /\ content[j].op = "Tm"
          /\ content[j].args = <<1, 0, 0, 1, x, y>>
          /\ content[k].op = "TJ"
          /\ content[k].items = items

\* C9 as claimed: the scenario's content stream holds one font-select, one
\* text-matrix at (10, 80), a show of the bytes 00 05 alone, an adjustment of
\* -50 PDF units, and a show of the bytes 00 06 alone.
C9_ScenarioAsClaimed ==
    (pc = "done" /\ IsScenario) =>
        ShowsAt(ContentOf(1), 10, 80,
                <<Show(<<0, 5>>), Adjust(-50), Show(<<0, 6>>)>>)

\* C9 as amended: the scenario's content stream holds one font-select, one
\* text-matrix at (10, 80) and a single show of the bytes 00 05 00 06 with no
\* adjustment (glyph 5 is set at its own advance, and the 50 units after
\* glyph 6, the last glyph, are never written); the claimed operators are
\* those of the scenario with the font-native advances 550 and 600.
C9_Scenario ==
    /\ (pc = "done" /\ IsScenario) =>
          ShowsAt(ContentOf(1), 10, 80, <<Show(<<0, 5, 0, 6>>)>>)
    /\ (pc = "done" /\ IsScenarioSwapped) =>
          ShowsAt(ContentOf(1), 10, 80,
                  <<Show(<<0, 5>>), Adjust(-50), Show(<<0, 6>>)>>)

\* C9 witness: the export of the scenario has finished.
C9_Witness == pc = "done" /\ IsScenario /\ Len(ContentOf(1)) > 0

\* The r, g, b samples of the pixels of an image, alpha left out.
RgbSamples(img) ==
    [k \in 1 .. 3 * Len(img.buf.pixels) |->
        img.buf.pixels[((k - 1) \div 3) + 1][((k - 1) % 3) + 1]]

\* C10 as claimed: a JPEG source with an 8-bit one- or three-channel buffer is
\* emitted with the DCT filter as gray or RGB; otherwise any 8-bit
\* single-channel buffer is emitted Flate-compressed as DeviceGray; otherwise
\* the buffer is emitted Flate-compressed as DeviceRGB with alpha dropped,
\* and this never fails.  (A JPEG branch is held to its filter and colour
\* space only where it emits the image.)
C10_PrecedenceAsClaimed ==
    pc = "returned" =>
        CASE arg.format = "Jpeg" /\ arg.buf.color = "Luma8" ->
                ret.ok =>
                    ret.filter = "DctDecode" /\ ret.color_space = "DeviceGray"
          [] arg.format = "Jpeg" /\ arg.buf.color = "Rgb8" ->
                ret.ok =>
                    ret.filter = "DctDecode" /\ ret.color_space = "DeviceRgb"
          [] arg.format # "Jpeg" /\ arg.buf.color = "Luma8" ->
                /\ ret.ok
                /\ ret.filter = "FlateDecode"
                /\ ret.color_space = "DeviceGray"
          [] OTHER ->
                /\ ret.ok
                /\ ret.filter = "FlateDecode"
                /\ ret.color_space = "DeviceRgb"
                /\ ret.data = <<"raw", RgbSamples(arg)>>

\* C10 as amended: a JPEG source with an 8-bit one- or three-channel buffer
\* is encoded as JPEG and, if that succeeds, emitted with the DCT filter as
\* gray or RGB (if it fails, encode_image fails); otherwise a PNG source
\* with an 8-bit single-channel buffer is emitted Flate-compressed as
\* DeviceGray; otherwise (8-bit single-channel buffers of other formats
\* included) the buffer is emitted Flate-compressed as DeviceRGB with alpha
\* dropped, and this never fails.
C10_Precedence ==
    pc = "returned" =>
        CASE arg.format = "Jpeg" /\ arg.buf.color \in {"Luma8", "Rgb8"} ->
                IF arg.jpeg_ok
                THEN /\ ret.ok
                     /\ ret.filter = "DctDecode"
                     /\ ret.color_space = IF arg.buf.color = "Luma8"
                                          THEN "DeviceGray"
                                          ELSE "DeviceRgb"
                ELSE ~ret.ok
          [] arg.format = "Png" /\ arg.buf.color = "Luma8" ->
                /\ ret.ok
                /\ ret.filter = "FlateDecode"
                /\ ret.color_space = "DeviceGray"
                /\ ret.data = <<"raw", <<arg.buf.pixels[1][1]>>>>
          [] OTHER ->
                /\ ret.ok
                /\ ret.filter = "FlateDecode"
                /\ ret.color_space = "DeviceRgb"
                /\ ret.data = <<"raw", RgbSamples(arg)>>

\* C10 witness: an 8-bit single-channel buffer of a source that is neither
\* JPEG nor PNG has been encoded by the last branch.
C10_Witness ==
    /\ pc = "returned"
    /\ arg.format = "Gif"
    /\ arg.buf.color = "Luma8"
    /\ ret.ok
    /\ ret.color_space = "DeviceRgb"

(***************************************************************************)
(* SpecRect: the export of one frame of at most MaxPageElems elements      *)
(* drawn from rectangles of every sign of width and height, other shapes   *)
(* and texts.                                                              *)
(***************************************************************************)
RectSizes ==
    {Size(5, 8), Size(0, 8), Size(5, 0), Size(-3, 8), Size(5, -2)}

RectElements ==
    {<<Point(10, 20), Geometry(Rect(sz), Red)>> : sz \in RectSizes}
    \cup {<<Point(10, 20), Geometry(Line(Point(7, 3), 2), Black)>>,
          <<Point(10, 20), Text(1, 10, Black, Run)>>,
          <<Point(30, 45), Text(2, 12, Red, Run)>>}

InitRect ==
    \E els \in SeqsUpTo(RectElements, MaxPageElems) :
        Start(<<Frame(Size(200, 100), els)>>, StdFonts, [i \in {} |-> i])

SpecRect == InitRect /\ [][Next]_vars

\* A Geometry rectangle whose width or height is <= 0.
Degenerate(element) ==
    /\ element.type = "Geometry"
    /\ element.geometry.shape = "Rect"
    /\ (element.geometry.size.w <= 0 \/ element.geometry.size.h <= 0)

\* The operators of a stream that elements after the k-th emitted, and the
\* end of the frame.
After(content, k) ==
    SelectSeq(content, LAMBDA o : o.elem > k \/ o.elem = 0)

\* Geometry elements that are not degenerate rectangles.
OtherGeometries ==
    {Geometry(g, p) :
        g \in {Rect(Size(5, 8)), Ellipse(Size(8, 4)), Line(Point(7, 3), 2),
               Path(ZigZag)},
        p \in {Black, Red}}

\* C11: a Geometry rectangle whose width or height is <= 0 emits no
\* fill-color-set operator, no rectangle or path primitive and no fill
\* operator, the export does not abort, and the operators of all later
\* elements of the frame (and of the end of the frame) are those the frame
\* yields with any other Geometry element in the rectangle's place.
C11_DegenerateRect ==
    /\ pc # "panic"
    /\ \A s \in Streams :
          LET content == s[1]
              size == frames[s[2]].size
              elements == frames[s[2]].elements
          IN  s[3] =>
              \A k \in 1 .. Len(elements) :
                  Degenerate(elements[k][2]) =>
                      /\ \A i \in 1 .. Len(content) :
                            content[i].elem = k =>
                                content[i].op \notin
                                    {"rg", "re", "m", "l", "c", "h", "f"}
                      /\ \E i \in OpsOf(content, {"q"}) : content[i].elem = k
                      /\ \A g \in OtherGeometries :
                            After(content, k) =
                                After(PageRun(PageLocals, size,
                                              [elements EXCEPT ![k][2] = g],
                                              font_map, image_map,
                                              fonts).content, k)

\* C11 witness: a finished export of a frame in which a degenerate rectangle
\* lies between two texts of the same fill, face and size: the second text
\* re-enters text mode and sets neither fill nor font.
C11_Witness ==
    /\ pc = "done"
    /\ \E s \in Streams :
          LET content == s[1]
              elements == frames[s[2]].elements
          IN  /\ s[3]
              /\ Len(elements) = 3
              /\ elements[1][2].type = "Text"
              /\ Degenerate(elements[2][2])
              /\ elements[3][2] = elements[1][2]
              /\ Cardinality(OpsOf(content, {"BT"})) = 2
              /\ Cardinality(OpsOf(content, {"rg"})) = 1
              /\ Cardinality(OpsOf(content, {"Tf"})) = 1

(***************************************************************************)
(* The order in which object bodies are written.                           *)
(***************************************************************************)
FontKinds ==
    <<"type0_font", "cid_font", "font_descriptor", "cmap", "font_data">>

\* The place of a kind of object in the order of the bands; masksLast tells
\* whether the alpha masks count as a band after the images.
BandOf(kind, masksLast) ==
    CASE kind = "catalog" -> 1
      [] kind = "pages" -> 2
      [] kind = "page" -> 3
      [] kind = "content" -> 4
      [] kind \in Elems(FontKinds) -> 5
      [] kind = "image" -> 6
      [] OTHER -> IF masksLast THEN 7 ELSE 6

Increasing(s) ==
    \A i, j \in 1 .. Len(s) : i < j => s[i].id < s[j].id

BandByBand(masksLast) ==
    \A i, j \in 1 .. Len(writer) :
        i < j => BandOf(writer[i].kind, masksLast)
                    <= BandOf(writer[j].kind, masksLast)

\* The five objects of every font group are written in group order.
GroupOrder ==
    LET font == SelectSeq(writer, LAMBDA o : o.kind \in Elems(FontKinds))
    IN  \A k \in 1 .. Len(font) :
            font[k].kind = FontKinds[((k - 1) % OBJECTS_PER_FONT) + 1]

\* C12 as claimed: over a complete export the written ids are strictly
\* increasing and the bodies come band by band: catalog, page tree root,
\* pages, content streams, font groups in group order, images, and only then
\* the alpha masks.
C12_WrittenInIdOrder ==
    pc = "done" =>
        /\ Increasing(writer)
        /\ BandByBand(TRUE)
        /\ GroupOrder

\* C12: over a complete export the bodies are written catalog, page tree
\* root, pages, content streams, font groups in group order, then the
\* images, each image that has an alpha channel directly followed by its
\* alpha mask; the ids of the objects other than masks are strictly
\* increasing in writing order, so are the ids of the masks, and every mask
\* id is greater than every image id.
C12_WriteOrder ==
    pc = "done" =>
        /\ Increasing(SelectSeq(writer, LAMBDA o : o.kind # "mask"))
        /\ Increasing(SelectSeq(writer, LAMBDA o : o.kind = "mask"))
        /\ BandByBand(FALSE)
        /\ GroupOrder
        /\ \A k \in OfKind("mask") :
              /\ k > 1
              /\ writer[k - 1].kind = "image"
              /\ writer[k - 1].s_mask = <<writer[k].id>>
              /\ \A i \in OfKind("image") : writer[i].id < writer[k].id
        /\ \A k \in OfKind("image") :
              IF /\ HasAlpha(images[writer[k].image].buf.color)
                 /\ EncodeImage(images[writer[k].image]).ok
              THEN /\ k < Len(writer)
                   /\ writer[k + 1].kind = "mask"
                   /\ writer[k].s_mask = <<writer[k + 1].id>>
              ELSE writer[k].s_mask = <<>>

\* C12 witness: a complete export that wrote an image with its alpha mask
\* and another image after them.
C12_Witness ==
    /\ pc = "done"
    /\ \E k \in OfKind("mask") :
          /\ k < Len(writer)
          /\ writer[k + 1].kind = "image"
          /\ writer[k + 1].id < writer[k].id

(***************************************************************************)
(* SpecCmap: the reverse mapping of write_fonts for a face of at most      *)
(* MaxSubtables subtables over the codepoints of space, no-break space and *)
(* a surrogate, every lookup of the two chars, and every glyph-usage set.  *)
(***************************************************************************)
CmapCodepoints == {32, 160, 55296}
CmapGlyphs == {1, 2}

\* The codepoints of a subtable, ascending.
RECURSIVE Ascending(_)
Ascending(S) ==
    IF S = {}
    THEN <<>>
    ELSE LET m == CHOOSE x \in S : \A y \in S : x <= y
         IN  <<m>> \o Ascending(S \ {m})

CmapSubtables ==
    {[is_unicode |-> u, codepoints |-> Ascending(S)] :
        u \in BOOLEAN, S \in SUBSET CmapCodepoints}

InitCmap ==
    /\ pc = "write_fonts::cmap"
    /\ \E subtables \in SeqsUpTo(CmapSubtables, MaxSubtables),
          glyph_index \in [{32, 160} -> {<<>>} \cup {<<g>> : g \in CmapGlyphs}],
          used \in SUBSET CmapGlyphs :
            arg = [ttf |-> [subtables |-> subtables,
                            glyph_index |-> glyph_index],
                   glyphs |-> used]
    /\ ret = <<>>
    /\ refs = NoRefs
    /\ font_map = RemapperNew
    /\ image_map = RemapperNew
    /\ IdleExporter

CallReverseCmap ==
    /\ pc = "write_fonts::cmap"
    /\ ret' = ReverseCmap(arg.ttf, arg.glyphs)
    /\ pc' = "returned"
    /\ UNCHANGED <<frames, fonts, images, glyphs, font_map, image_map, refs,
                   writer, page, local, arg>>

NextCmap == CallReverseCmap

SpecCmap == InitCmap /\ [][NextCmap]_vars

\* The chars the walk of the Unicode subtables meets, in order.
RECURSIVE Walk(_, _)
Walk(ttf, k) ==
    IF k > Len(ttf.subtables)
    THEN <<>>
    ELSE (IF ttf.subtables[k].is_unicode
          THEN SelectSeq(ttf.subtables[k].codepoints,
                         LAMBDA n : FromU32(n) # <<>>)
          ELSE <<>>)
         \o Walk(ttf, k + 1)

\* The positions of the walk at which glyph g is met.
Met(ttf, g) ==
    {i \in 1 .. Len(Walk(ttf, 1)) :
        ttf.glyph_index[Walk(ttf, 1)[i]] = <<g>>}

\* C13: the reverse-codepoint map has an entry for a glyph id only if the
\* glyph is in the glyph-usage set, maps each such glyph id to the first
\* codepoint met for it while walking the Unicode subtables in order (a
\* later codepoint of the same glyph does not replace it), and is emitted in
\* ascending glyph-id order.
C13_FirstCodepoint ==
    pc = "returned" =>
        /\ \A k \in 1 .. Len(ret) :
              /\ ret[k][1] \in arg.glyphs
              /\ Met(arg.ttf, ret[k][1]) # {}
              /\ ret[k][2] =
                    Walk(arg.ttf, 1)[CHOOSE i \in Met(arg.ttf, ret[k][1]) :
                                        \A j \in Met(arg.ttf, ret[k][1]) :
                                            i <= j]
        /\ \A i, j \in 1 .. Len(ret) : i < j => ret[i][1] < ret[j][1]

(***************************************************************************)
(* The collection pass and the write pass.                                 *)
(***************************************************************************)
\* The ids a Remapper holds.
Inserted(rm) == Elems(RemapperLayoutIndices(rm))

\* The elements write_pages encodes: those of the frames it zips with the
\* content ids.
WrittenElements ==
    UNION {Elems([k \in 1 .. Len(frames[j].elements) |->
                     frames[j].elements[k][2]]) : j \in 1 .. PageCount}

\* C14: for every frame list, once the collection pass has run, every font
\* or image id whose dense index write_page requests with map() is held by
\* the matching Remapper, the key set of the glyph-usage map is the set of
\* ids of the font Remapper (so every font write_fonts iterates has a
\* glyph-usage set), and the export never aborts in map() or in the lookup
\* of a glyph-usage set.
C14_PassesAgree ==
    /\ pc # "panic"
    /\ pc # "new" =>
          /\ \A element \in WrittenElements :
                /\ element.type = "Text" =>
                      /\ element.face_id \in Inserted(font_map)
                      /\ ~RemapperMapPanics(font_map, element.face_id)
                /\ element.type = "Image" =>
                      /\ element.id \in Inserted(image_map)
                      /\ ~RemapperMapPanics(image_map, element.id)
          /\ DOMAIN glyphs = Inserted(font_map)
          /\ ~WriteFontsPanics(refs, font_map, glyphs)
    /\ (pc = "write_pages" /\ local.next \in 1 .. Len(frames[page].elements))
          => ~StepPanics(local, frames[page].elements[local.next][2],
                         font_map, image_map)

\* C14 witness: a complete export that requested the dense index of a font
\* and of an image without alpha while writing pages, and wrote the font's
\* group from its glyph-usage set.
C14_Witness ==
    /\ pc = "done"
    /\ \E s \in Streams :
          /\ OpsOf(s[1], {"Tf"}) # {}
          /\ \E k \in OpsOf(s[1], {"Do"}) :
                ~HasAlpha(images[frames[s[2]].elements[s[1][k].elem][2].id]
                            .buf.color)
    /\ OfKind("cmap") # {}

====
